---- MODULE Spec2Model ----
(***************************************************************************)
(* Model of the calendar scheduling engine of medical-calendar:            *)
(* the appointment store (useAppointments), the drag/resize interpreter    *)
(* (useCalendarDrag), the working-hours state (useWorkingHours and its     *)
(* provider), the slot lattice generators of the ruler and the grid, and   *)
(* the overlap grouper.                                                    *)
(*                                                                         *)
(* Time values (JavaScript Date) are integers: minutes since 00:00 of day  *)
(* 0 of the displayed range, local wall-clock time, no daylight-saving     *)
(* shifts.  Pixel values are exact rationals carried as integer multiples  *)
(* of 1/SubPx pixel, so that totalMinutes / slotInterval * slotHeightPx is *)
(* represented without rounding.                                           *)
(***************************************************************************)
EXTENDS Integers, Sequences, FiniteSets, TLC

VARIABLES
    appointments,   \* useAppointments: the appointments array (React state)
    nextId,         \* number of ids handed out by crypto.randomUUID so far
    slotHeight,     \* useCalendarState: 'small' | 'medium' | 'large'
    modalState,     \* Calendar: the create/edit modal state
    last,           \* history: the last store handler that ran, its inputs, the store before it
    ops,            \* history: number of store handlers that ran
    workingHours,   \* useWorkingHours: the working hours (React state)
    rendered,       \* WorkingHoursProvider: the working hours its last render closed over
    storage,        \* localStorage entry 'calendar-working-hours'
    effectPending,  \* useWorkingHours: the persist effect is scheduled and has not run
    lastSet,        \* history: the last setter call, its argument, the hours before it,
                    \* the call before it when no render separates the two
    timelineProps,  \* CalendarTimeline: startHour, endHour, slotInterval props
    gridProps,      \* CalendarGrid: startHour, endHour, slotInterval props
    timelineSlots,  \* CalendarTimeline: its memoized timeSlots
    gridSlots,      \* CalendarGrid: its memoized timeSlots
    panesRendered,  \* which of the two panes have computed their slots
    dayAppointments,    \* CalendarGrid: the appointments of one day column
    overlappingGroups,  \* CalendarGrid: detectOverlappingAppointments(dayAppointments)
    cards,              \* CalendarColumn: per card, its lane and horizontal extent
    laneStage,          \* "input", "grouped" or "placed"
    geoInput,       \* a time, a slot height and an interval given to the geometry mapper
    geoTop,         \* calculateAppointmentTop of the time
    geoTime,        \* calculateNewTime of that top
    geoStage,       \* "input", "top" or "time"
    gridScrollTop,      \* scrollTop of the grid pane (gridRef)
    timelineScrollTop,  \* scrollTop of the ruler pane (timelineRef)
    scrollPending,      \* a scroll event of the grid pane is queued
    mountStage,         \* "mounted", "timelineScrolled" or "settled"
    scrollEnv,          \* the time of day at mount and the panes' clientHeight
    lastScroll,         \* history: the last scroll step and the offsets before it
    renderedAppointments,   \* useState: the appointments array of the last render
    updateQueue,            \* useState: the updates queued by setAppointments since then
    foldedAppointments,     \* history: the drag-end events applied one by one, in delivery order
    delivered,              \* history: number of drag-end events delivered
    filterInput,        \* CalendarGrid: the appointments prop and one date to display
    filterResult,       \* filterAppointmentsByDate(appointments, date)
    filterStage         \* "input" or "filtered"

storeVars == <<appointments, nextId, slotHeight, modalState, last, ops>>
hoursVars == <<workingHours, rendered, storage, effectPending, lastSet>>
latticeVars == <<timelineProps, gridProps, timelineSlots, gridSlots, panesRendered>>
laneVars == <<dayAppointments, overlappingGroups, cards, laneStage>>
geoVars == <<geoInput, geoTop, geoTime, geoStage>>
scrollVars == <<gridScrollTop, timelineScrollTop, scrollPending, mountStage,
                scrollEnv, lastScroll>>
queueVars == <<renderedAppointments, updateQueue, foldedAppointments, delivered>>
filterVars == <<filterInput, filterResult, filterStage>>
notStore ==
    <<hoursVars, latticeVars, laneVars, geoVars, scrollVars, queueVars, filterVars>>
notHours ==
    <<storeVars, latticeVars, laneVars, geoVars, scrollVars, queueVars, filterVars>>
notLattice ==
    <<storeVars, hoursVars, laneVars, geoVars, scrollVars, queueVars, filterVars>>
notLanes ==
    <<storeVars, hoursVars, latticeVars, geoVars, scrollVars, queueVars, filterVars>>
notGeo ==
    <<storeVars, hoursVars, latticeVars, laneVars, scrollVars, queueVars, filterVars>>
notScroll ==
    <<storeVars, hoursVars, latticeVars, laneVars, geoVars, queueVars, filterVars>>
notQueue ==
    <<storeVars, hoursVars, latticeVars, laneVars, geoVars, scrollVars, filterVars>>
notFilter ==
    <<storeVars, hoursVars, latticeVars, laneVars, geoVars, scrollVars, queueVars>>

vars ==
    <<storeVars, hoursVars, latticeVars, laneVars, geoVars, scrollVars, queueVars,
      filterVars>>

----------------------------------------------------------------------------
(* Program constants                                                        *)

MINUTES_IN_HOUR == 60
HOURS_IN_DAY == 24
MIN_HOUR == 0
MAX_HOUR == 24
MIN_DURATION == 15
RESIZE_SNAP == 15
RESIZE_BASE == 30
MOVE_STEP == 30
CALENDAR_INTERVAL == 30

MinutesInDay == HOURS_IN_DAY * MINUTES_IN_HOUR

\* Pixel values are carried in units of 1/SubPx pixel (60 is a multiple of
\* every slot interval 15, 30, 60, so tops of minute-resolution times are exact).
SubPx == MINUTES_IN_HOUR

VALID_SLOT_INTERVALS == {15, 30, 60}

DURATION_OPTIONS == <<15, 30, 45, 60, 90, 120, 150, 180, 240>>

----------------------------------------------------------------------------
(* Bounds of the model                                                      *)

MaxAppointments == 2    \* appointments in the store at once
MaxOps == 3             \* store handlers run in one behaviour

\* Day columns displayed.
Days == {0, 1}

\* Vertical pointer deltas of a drag, in whole pixels.
DeltaYs == {-100, -10, 40}

\* Rows of the lattice that are clicked: the last bookable row and the boundary row.
ClickSlots == {[hour |-> 23, minute |-> 30], [hour |-> 24, minute |-> 0]}

----------------------------------------------------------------------------
(* Arithmetic helpers                                                       *)

Max(a, b) == IF a >= b THEN a ELSE b

\* Math.round(n / d) for d > 0: the nearest integer, ties towards +infinity.
MathRound(n, d) == (2 * n + d) \div (2 * d)

\* Date.getHours() / Date.getMinutes() / start of the local day.
GetHours(t) == (t % MinutesInDay) \div MINUTES_IN_HOUR
GetMinutes(t) == t % MINUTES_IN_HOUR
StartOfDay(t) == t - (t % MinutesInDay)
DayStart(d) == d * MinutesInDay

\* date-fns addMinutes / setHours / setMinutes.
AddMinutes(t, amount) == t + amount
SetHours(t, h) == StartOfDay(t) + h * MINUTES_IN_HOUR + GetMinutes(t)
SetMinutes(t, m) == t - GetMinutes(t) + m

----------------------------------------------------------------------------
(* useCalendarState: slot height in pixels                                  *)

SlotHeights == {"small", "medium", "large"}

SlotHeightPx(h) == IF h = "small" THEN 20 ELSE IF h = "medium" THEN 30 ELSE 40

----------------------------------------------------------------------------
(* Geometry mapper                                                          *)

\* calculateAppointmentTop: (hours*60 + minutes) / slotInterval * slotHeightPx,
\* returned in 1/SubPx pixel.
CalculateAppointmentTop(startTime, slotHeightPx, slotInterval) ==
    LET totalMinutes == GetHours(startTime) * MINUTES_IN_HOUR + GetMinutes(startTime)
    IN  (totalMinutes * slotHeightPx * SubPx) \div slotInterval

\* Mutant: Math.floor in place of Math.round.
CalculateNewTime_Floor(yOffset, slotHeightPx, stepMinutes, startHour, baseDate) ==
    LET safeOffset == Max(0, yOffset)
        slotsFromTop == safeOffset \div (slotHeightPx * SubPx)
        totalMinutesAdded == slotsFromTop * stepMinutes
        newDate == SetMinutes(SetHours(baseDate, startHour), 0)
    IN  AddMinutes(newDate, totalMinutesAdded)

\* calculateNewTime: yOffset in 1/SubPx pixel.
CalculateNewTime(yOffset, slotHeightPx, stepMinutes, startHour, baseDate) ==
    LET safeOffset == Max(0, yOffset)
        slotsFromTop == MathRound(safeOffset, slotHeightPx * SubPx)
        totalMinutesAdded == slotsFromTop * stepMinutes
        newDate == SetMinutes(SetHours(baseDate, startHour), 0)
    IN  AddMinutes(newDate, totalMinutesAdded)

----------------------------------------------------------------------------
(* Drag/resize interpreter: useCalendarDrag.handleDragEnd                   *)

\* Mutant: the snap of the resize follows the slot interval instead of 15 minutes.
SnappedMinutes_ToInterval(deltaY, slotHeightPx) ==
    MathRound(deltaY * RESIZE_BASE, slotHeightPx * CALENDAR_INTERVAL) * CALENDAR_INTERVAL

\* Resize branch: the snapped change of duration for a vertical delta (px).
SnappedMinutes(deltaY, slotHeightPx) ==
    \* pixelsPerMinute = slotHeightPx / 30; minutesChanged = delta.y / pixelsPerMinute
    \* snappedMinutes = Math.round(minutesChanged / 15) * 15
    MathRound(deltaY * RESIZE_BASE, slotHeightPx * RESIZE_SNAP) * RESIZE_SNAP

\* Mutant: the floor of the resize is zero minutes.
ResizedDuration_FloorZero(duration, deltaY, slotHeightPx) ==
    Max(0, duration + SnappedMinutes(deltaY, slotHeightPx))

\* Mutant: the resize forgets the minimum-duration floor.
ResizedDuration_NoFloor(duration, deltaY, slotHeightPx) ==
    duration + SnappedMinutes(deltaY, slotHeightPx)

ResizedDuration(duration, deltaY, slotHeightPx) ==
    Max(MIN_DURATION, duration + SnappedMinutes(deltaY, slotHeightPx))

\* Mutant: the move keeps the appointment's own day instead of the drop column's.
MovedStartTime_KeepsDay(startTime, deltaY, slotHeightPx, overDate) ==
    LET originalTop == CalculateAppointmentTop(startTime, slotHeightPx, MOVE_STEP)
        newTop == originalTop + deltaY * SubPx
    IN  CalculateNewTime(newTop, slotHeightPx, MOVE_STEP, MIN_HOUR, StartOfDay(startTime))

\* Move branch: the new start time for a vertical delta (px) and a drop column date.
MovedStartTime(startTime, deltaY, slotHeightPx, overDate) ==
    LET originalTop == CalculateAppointmentTop(startTime, slotHeightPx, MOVE_STEP)
        newTop == originalTop + deltaY * SubPx
    IN  CalculateNewTime(newTop, slotHeightPx, MOVE_STEP, MIN_HOUR, overDate)

IndexOfId(apts, id) ==
    IF \E i \in 1 .. Len(apts) : apts[i].id = id
    THEN CHOOSE i \in 1 .. Len(apts) :
            /\ apts[i].id = id
            /\ \A j \in 1 .. (i - 1) : apts[j].id # id
    ELSE 0

\* The drag sources of a card: the card itself (id) and its handle ("resize-" + id).
ActiveOf(id, type) == [id |-> id, type |-> type]

NoOver == [kind |-> "none", date |-> 0]
OverNoDate == [kind |-> "nodate", date |-> 0]
OverColumn(d) == [kind |-> "column", date |-> DayStart(d)]
Overs == {NoOver, OverNoDate} \cup {OverColumn(d) : d \in Days}
\* A resize reads no field of the drop target: one absent and one present target.
ResizeOvers == {NoOver, OverColumn(0)}

\* The functional update passed to setAppointments: the next array.
DragUpdater(prev, active, over, deltaY, slotHeightPx) ==
    LET isResize == active.type = "resize"
        actualId == active.id
        idx == IndexOfId(prev, actualId)
    IN  IF idx = 0 THEN prev
        ELSE LET appointment == prev[idx] IN
             IF isResize
             THEN LET newDuration == ResizedDuration(appointment.duration, deltaY, slotHeightPx)
                      newEndTime == AddMinutes(appointment.startTime, newDuration)
                  IN  IF newDuration = appointment.duration THEN prev
                      ELSE [i \in 1 .. Len(prev) |->
                              IF prev[i].id = actualId
                              THEN [prev[i] EXCEPT !.duration = newDuration,
                                                   !.endTime = newEndTime]
                              ELSE prev[i]]
             ELSE IF over.kind # "column" THEN prev
             ELSE LET newStartTime == MovedStartTime(appointment.startTime, deltaY,
                                                     slotHeightPx, over.date)
                      newEndTime == AddMinutes(newStartTime, appointment.duration)
                  IN  [i \in 1 .. Len(prev) |->
                          IF prev[i].id = actualId
                          THEN [prev[i] EXCEPT !.startTime = newStartTime,
                                               !.endTime = newEndTime]
                          ELSE prev[i]]

\* Mutant: the resize branch maps the array even when the duration is the same.
DragKeepsPrev_NoResizeCheck(prev, active, over, deltaY, slotHeightPx) ==
    LET idx == IndexOfId(prev, active.id)
    IN  \/ idx = 0
        \/ /\ active.type # "resize"
           /\ over.kind # "column"

\* Whether the updater returns the previous array itself (no new store value).
DragKeepsPrev(prev, active, over, deltaY, slotHeightPx) ==
    LET idx == IndexOfId(prev, active.id)
    IN  \/ idx = 0
        \/ /\ active.type = "resize"
           /\ ResizedDuration(prev[idx].duration, deltaY, slotHeightPx) = prev[idx].duration
        \/ /\ active.type # "resize"
           /\ over.kind # "column"

\* Mutant: a resize needs a drop target just as a move does.
DragCommits_ResizeNeedsTarget(active, over) ==
    over.kind = "column"

\* The guards of handleDragEnd before setAppointments is called:
\* if (!isResize && !over) return;  if (!isResize && !overDate) return;
DragCommits(active, over) ==
    LET isResize == active.type = "resize"
    IN  /\ ~(~isResize /\ over.kind = "none")
        /\ ~(~isResize /\ over.kind # "column")

\* Mutant: the drag-end handler applies a move without checking the drop target.
DragEndStore_NoTargetCheck(prev, active, over, deltaY, slotHeightPx) ==
    DragUpdater(prev, active, [over EXCEPT !.kind = "column"], deltaY, slotHeightPx)

\* handleDragEnd as a whole: the store after the drag-end event.
DragEndStore(prev, active, over, deltaY, slotHeightPx) ==
    IF DragCommits(active, over)
    THEN DragUpdater(prev, active, over, deltaY, slotHeightPx)
    ELSE prev

----------------------------------------------------------------------------
(* Appointment store: useAppointments                                       *)

NoAppointment ==
    [id |-> 0, startTime |-> 0, endTime |-> 0, duration |-> 0,
     isNewPatient |-> FALSE, status |-> "none"]

\* addAppointment: the record built from the form data.
NewAppointment(id, data) ==
    [id |-> id,
     startTime |-> data.startTime,
     endTime |-> AddMinutes(data.startTime, data.duration),
     duration |-> data.duration,
     isNewPatient |-> data.isNewPatient,
     status |-> "booked"]

\* Mutant: the form update spreads the data and forgets to recompute endTime.
UpdatedFromForm_StaleEnd(apt, data) ==
    [apt EXCEPT !.startTime = data.startTime,
                !.duration = data.duration,
                !.isNewPatient = data.isNewPatient]

\* updateAppointmentFromForm: { ...apt, ...data, endTime }.
UpdatedFromForm(apt, data) ==
    [apt EXCEPT !.startTime = data.startTime,
                !.duration = data.duration,
                !.isNewPatient = data.isNewPatient,
                !.endTime = AddMinutes(data.startTime, data.duration)]

UpdateAppointmentFromForm(prev, id, data) ==
    [i \in 1 .. Len(prev) |->
        IF prev[i].id = id THEN UpdatedFromForm(prev[i], data) ELSE prev[i]]

DeleteAppointment(prev, id) ==
    SelectSeq(prev, LAMBDA apt : apt.id # id)

----------------------------------------------------------------------------
(* The form: values a submission can carry                                  *)

\* The presets of the duration select that are exercised.
PresetDurations == {DURATION_OPTIONS[i] : i \in {1, 2}}

\* The values of the new-patient box that are exercised on a create form: its
\* default, unchecked. An edit form submits either value.
CreateNewPatient == {FALSE}

\* The duration select offers the presets and the current duration.
FormDurations(current) == PresetDurations \cup {current}

FormData(startTime, duration, isNewPatient) ==
    [startTime |-> startTime, duration |-> duration, isNewPatient |-> isNewPatient]

----------------------------------------------------------------------------
(* Calendar: modal state and handlers                                       *)

\* modalState; column is history: the date of the column whose slot was activated.
ModalClosed ==
    [mode |-> "closed", date |-> 0, appointment |-> NoAppointment, column |-> 0]

NoLast ==
    [op |-> "none", id |-> 0, deltaY |-> 0, over |-> NoOver, height |-> 0,
     prev |-> <<>>, kept |-> TRUE, column |-> 0]

StoreInit ==
    /\ appointments = <<>>
    /\ nextId = 1
    /\ slotHeight = "medium"
    /\ modalState = ModalClosed
    /\ last = NoLast
    /\ ops = 0

\* A slot row is activated by a click (CalendarColumn onClick) or by Enter/Space
\* (CalendarGrid.handleKeyDown): both call onSlotClick(date, slot.hour, slot.minute).
\* handleSlotClick(date, hour, minute): date.setHours(hour, minute, 0, 0) and the
\* create modal opens; hour 24 rolls over to 00:00 of the next day.
HandleSlotClick ==
    /\ modalState.mode = "closed"
    /\ ops < MaxOps
    /\ Len(appointments) < MaxAppointments
    /\ \E d \in Days, slot \in ClickSlots :
          modalState' = [mode |-> "create",
                         date |-> DayStart(d) + slot.hour * MINUTES_IN_HOUR + slot.minute,
                         appointment |-> NoAppointment,
                         column |-> DayStart(d)]
    /\ UNCHANGED <<appointments, nextId, slotHeight, last, ops, notStore>>

\* handleAppointmentClick(appointment): opens the edit modal on a card.
HandleAppointmentClick ==
    /\ modalState.mode = "closed"
    /\ ops < MaxOps
    /\ \E i \in 1 .. Len(appointments) :
          modalState' = [mode |-> "edit", date |-> 0, appointment |-> appointments[i],
                         column |-> 0]
    /\ UNCHANGED <<appointments, nextId, slotHeight, last, ops, notStore>>

\* The modal's onClose (cancel, escape).
CloseModal ==
    /\ modalState.mode # "closed"
    /\ modalState' = ModalClosed
    /\ UNCHANGED <<appointments, nextId, slotHeight, last, ops, notStore>>

\* handleSaveAppointment in create mode: addAppointment(data), then onClose.
SaveCreate ==
    /\ modalState.mode = "create"
    /\ ops < MaxOps
    /\ \E duration \in PresetDurations, isNew \in CreateNewPatient :
          LET data == FormData(modalState.date, duration, isNew)
          IN  /\ appointments' = Append(appointments, NewAppointment(nextId, data))
              /\ last' = [NoLast EXCEPT !.op = "add", !.id = nextId,
                                        !.prev = appointments, !.kept = FALSE,
                                        !.column = modalState.column]
    /\ nextId' = nextId + 1
    /\ modalState' = ModalClosed
    /\ ops' = ops + 1
    /\ UNCHANGED <<slotHeight, notStore>>

\* handleSaveAppointment in edit mode: updateAppointmentFromForm(id, data), then onClose.
SaveEdit ==
    /\ modalState.mode = "edit"
    /\ ops < MaxOps
    /\ \E duration \in FormDurations(modalState.appointment.duration), isNew \in BOOLEAN :
          LET data == FormData(modalState.appointment.startTime, duration, isNew)
          IN  /\ appointments' =
                    UpdateAppointmentFromForm(appointments, modalState.appointment.id, data)
              /\ last' = [NoLast EXCEPT !.op = "edit", !.id = modalState.appointment.id,
                                        !.prev = appointments, !.kept = FALSE]
    /\ modalState' = ModalClosed
    /\ ops' = ops + 1
    /\ UNCHANGED <<nextId, slotHeight, notStore>>

\* handleDeleteAppointment: deleteAppointment(id), then onClose.
DeleteFromModal ==
    /\ modalState.mode = "edit"
    /\ ops < MaxOps
    /\ appointments' = DeleteAppointment(appointments, modalState.appointment.id)
    /\ last' = [NoLast EXCEPT !.op = "delete", !.id = modalState.appointment.id,
                              !.prev = appointments, !.kept = FALSE]
    /\ modalState' = ModalClosed
    /\ ops' = ops + 1
    /\ UNCHANGED <<nextId, slotHeight, notStore>>

\* The header's slot-height control.
SetSlotHeight ==
    /\ modalState.mode = "closed"
    /\ ops < MaxOps
    /\ \E h \in SlotHeights : h # slotHeight /\ slotHeight' = h
    /\ UNCHANGED <<appointments, nextId, modalState, last, ops, notStore>>

\* handleDragEnd for a drag of a card (move) or of its handle (resize).
HandleDragEnd ==
    /\ modalState.mode = "closed"
    /\ ops < MaxOps
    /\ \E id \in {appointments[i].id : i \in 1 .. Len(appointments)},
          type \in {"appointment", "resize"},
          over \in Overs, deltaY \in DeltaYs :
          LET active == ActiveOf(id, type)
              px == SlotHeightPx(slotHeight)
              commits == DragCommits(active, over)
          IN  /\ type = "resize" => over \in ResizeOvers
              /\ appointments' = DragEndStore(appointments, active, over, deltaY, px)
              /\ last' = [op |-> IF type = "resize" THEN "resize" ELSE "move",
                          id |-> id, deltaY |-> deltaY, over |-> over, height |-> px,
                          prev |-> appointments, column |-> 0,
                          kept |-> (~commits) \/ DragKeepsPrev(appointments, active, over,
                                                               deltaY, px)]
    /\ ops' = ops + 1
    /\ UNCHANGED <<nextId, slotHeight, modalState, notStore>>

StoreNext ==
    \/ HandleSlotClick
    \/ HandleAppointmentClick
    \/ CloseModal
    \/ SaveCreate
    \/ SaveEdit
    \/ DeleteFromModal
    \/ SetSlotHeight
    \/ HandleDragEnd

----------------------------------------------------------------------------
(* Working-hours state: useWorkingHours and WorkingHoursProvider            *)

DEFAULT_START_HOUR == 8
DEFAULT_END_HOUR == 18
MIN_WORKING_HOURS_RANGE == 1

\* JavaScript values a caller or the storage entry can supply for an hour.
\* NaN has typeof 'number' and fails every comparison.
Num(n) == [t |-> "number", v |-> n]
NaNValue == [t |-> "NaN", v |-> 0]
StringValue == [t |-> "string", v |-> 0]
UndefinedValue == [t |-> "undefined", v |-> 0]

\* Numbers supplied as hours: out of range on both sides, the range's ends,
\* and the hours of the specification's example.
ArgNumbers == {-1, 0, 8, 20, 24, 25}
\* The setters are typed (hour: number): numbers and NaN.
ArgValues == {Num(n) : n \in ArgNumbers} \cup {NaNValue}
\* A parsed storage object can hold anything in a field, or lack the field.
StoredValues == ArgValues \cup {StringValue, UndefinedValue}

TypeofNumber(x) == x.t \in {"number", "NaN"}
Geq(x, n) == x.t = "number" /\ x.v >= n
Gt(x, n) == x.t = "number" /\ x.v > n
Leq(x, n) == x.t = "number" /\ x.v <= n
Lt(x, n) == x.t = "number" /\ x.v < n

Hours(s, e) == [startHour |-> s, endHour |-> e]

\* Mutant: the validation forgets the minimum range between start and end.
ValidateWorkingHours_NoRange(startHour, endHour) ==
    /\ TypeofNumber(startHour)
    /\ TypeofNumber(endHour)
    /\ Geq(startHour, MIN_HOUR)
    /\ Lt(startHour, MAX_HOUR)
    /\ Gt(endHour, MIN_HOUR)
    /\ Leq(endHour, MAX_HOUR)

\* validateWorkingHours(startHour, endHour).
ValidateWorkingHours(startHour, endHour) ==
    /\ TypeofNumber(startHour)
    /\ TypeofNumber(endHour)
    /\ Geq(startHour, MIN_HOUR)
    /\ Lt(startHour, MAX_HOUR)
    /\ Gt(endHour, MIN_HOUR)
    /\ Leq(endHour, MAX_HOUR)
    /\ startHour.t = "number" /\ endHour.t = "number"
    /\ endHour.v - startHour.v >= MIN_WORKING_HOURS_RANGE

\* The storage entry: absent, text JSON.parse rejects, JSON that is no object
\* (null, a number, a string), or an object whose two fields hold any value.
StorageMissing == [kind |-> "missing", startHour |-> UndefinedValue, endHour |-> UndefinedValue]
StorageUnparsable == [kind |-> "unparsable", startHour |-> UndefinedValue, endHour |-> UndefinedValue]
StorageNonObject == [kind |-> "nonobject", startHour |-> UndefinedValue, endHour |-> UndefinedValue]
StorageObject(s, e) == [kind |-> "object", startHour |-> s, endHour |-> e]

StorageContents ==
    {StorageMissing, StorageUnparsable, StorageNonObject}
    \cup {StorageObject(s, e) : s, e \in StoredValues}

DefaultHours == Hours(Num(DEFAULT_START_HOUR), Num(DEFAULT_END_HOUR))

\* JSON.parse(stored) throws a SyntaxError on text that is no JSON.
JsonParseThrows(stored) == stored.kind = "unparsable"

\* loadWorkingHours() lets an exception escape: JSON.parse runs only on a
\* present entry and inside the try block, whose catch falls through.
LoadWorkingHoursRaises(stored) ==
    LET parseReached == stored.kind # "missing"
        insideTry == TRUE
    IN  parseReached /\ JsonParseThrows(stored) /\ ~insideTry

\* Mutant: the parsed pair is returned without validation.
LoadWorkingHours_NoFallback(stored) ==
    IF stored.kind = "object"
    THEN Hours(stored.startHour, stored.endHour)
    ELSE DefaultHours

\* loadWorkingHours().
LoadWorkingHours(stored) ==
    IF /\ stored.kind = "object"
       /\ ValidateWorkingHours(stored.startHour, stored.endHour)
    THEN Hours(stored.startHour, stored.endHour)
    ELSE DefaultHours

\* Mutant: the persisted record loses the end hour.
SaveWorkingHours_StartOnly(hours) == StorageObject(hours.startHour, UndefinedValue)

\* saveWorkingHours(workingHours): JSON.stringify of the two numbers.
SaveWorkingHours(hours) == StorageObject(hours.startHour, hours.endHour)

\* Mutant: the setter stores its argument without validating it.
SetWorkingHoursResult_Unchecked(current, hours) == hours

\* setWorkingHours(hours): the state after the call.
SetWorkingHoursResult(current, hours) ==
    IF ValidateWorkingHours(hours.startHour, hours.endHour) THEN hours ELSE current

\* startBefore: the hour of a setStartHour call that immediately preceded the
\* call, was accepted and has not been rendered (no render separates the two
\* calls); undefined when there is none.
NoSet ==
    [op |-> "none", arg |-> DefaultHours, prev |-> DefaultHours,
     startBefore |-> UndefinedValue]

HoursIdle ==
    /\ workingHours = DefaultHours
    /\ rendered = DefaultHours
    /\ storage = StorageMissing
    /\ effectPending = FALSE
    /\ lastSet = NoSet

\* Mount: useState(loadWorkingHours) from whatever the storage holds; the
\* persist effect is scheduled by the first render.
HoursInit ==
    /\ storage \in StorageContents
    /\ workingHours = LoadWorkingHours(storage)
    /\ rendered = workingHours
    /\ effectPending = TRUE
    /\ lastSet = NoSet

\* Event handlers run after the mount's passive effect has been flushed.
MountSettled == lastSet.op # "none" \/ ~effectPending

\* A call of the setter with argument `hours`, shared by the three entry points.
CallSetter(op, hours) ==
    /\ workingHours' = SetWorkingHoursResult(workingHours, hours)
    /\ effectPending' = (effectPending \/ ValidateWorkingHours(hours.startHour, hours.endHour))
    /\ lastSet' = [op |-> op, arg |-> hours, prev |-> workingHours,
                   startBefore |->
                       IF /\ lastSet.op = "setStart"
                          /\ ValidateWorkingHours(lastSet.arg.startHour, lastSet.arg.endHour)
                          /\ rendered # workingHours
                       THEN lastSet.arg.startHour
                       ELSE UndefinedValue]
    /\ UNCHANGED <<rendered, storage, notHours>>

\* setWorkingHours(hours) with any argument.
SetWorkingHours ==
    /\ MountSettled
    /\ \E s, e \in ArgValues : CallSetter("set", Hours(s, e))

\* setStartHour(hour): setWorkingHours({ ...workingHours, startHour: hour }),
\* workingHours being the value the provider's last render closed over.
SetStartHour ==
    /\ MountSettled
    /\ \E hour \in ArgValues : CallSetter("setStart", [rendered EXCEPT !.startHour = hour])

\* setEndHour(hour): setWorkingHours({ ...workingHours, endHour: hour }).
SetEndHour ==
    /\ MountSettled
    /\ \E hour \in ArgValues : CallSetter("setEnd", [rendered EXCEPT !.endHour = hour])

\* React re-renders the provider with the current state.
Render ==
    /\ rendered # workingHours
    /\ rendered' = workingHours
    /\ UNCHANGED <<workingHours, storage, effectPending, lastSet, notHours>>

\* The persist effect of the committed render runs.
PersistEffect ==
    /\ effectPending
    /\ rendered = workingHours
    /\ storage' = SaveWorkingHours(workingHours)
    /\ effectPending' = FALSE
    /\ UNCHANGED <<workingHours, rendered, lastSet, notHours>>

HoursNext ==
    \/ SetWorkingHours
    \/ SetStartHour
    \/ SetEndHour
    \/ Render
    \/ PersistEffect

----------------------------------------------------------------------------
(* Time lattice generators: one in CalendarTimeline, one in CalendarGrid    *)

\* The label of a ruler row: hour and minute, each padded to two digits.
SlotLabel(hour, minute) ==
    <<hour \div 10, hour % 10, minute \div 10, minute % 10>>

\* Mutant: the ruler's inner loop without the break at the end hour.
RECURSIVE TimelineHourSlots_NoBreak(_, _, _, _)
TimelineHourSlots_NoBreak(hour, slotIndex, endHour, interval) ==
    IF slotIndex >= MINUTES_IN_HOUR \div interval THEN <<>>
    ELSE LET minute == slotIndex * interval
         IN  <<[hour |-> hour, minute |-> minute,
                label |-> SlotLabel(hour, minute),
                isHourStart |-> (minute = 0)]>>
             \o TimelineHourSlots_NoBreak(hour, slotIndex + 1, endHour, interval)

\* CalendarTimeline.generateTimeSlots, the inner loop: the slots pushed for one
\* hour from slotIndex on.
RECURSIVE TimelineHourSlots(_, _, _, _)
TimelineHourSlots(hour, slotIndex, endHour, interval) ==
    IF slotIndex >= MINUTES_IN_HOUR \div interval THEN <<>>
    ELSE LET minute == slotIndex * interval
         IN  IF hour = endHour /\ minute > 0 THEN <<>>
             ELSE <<[hour |-> hour, minute |-> minute,
                     label |-> SlotLabel(hour, minute),
                     isHourStart |-> (minute = 0)]>>
                  \o TimelineHourSlots(hour, slotIndex + 1, endHour, interval)

\* CalendarTimeline.generateTimeSlots, the outer loop: the slots pushed from hour on.
RECURSIVE TimelineSlotsFrom(_, _, _)
TimelineSlotsFrom(hour, endHour, interval) ==
    IF hour > endHour THEN <<>>
    ELSE TimelineHourSlots(hour, 0, endHour, interval)
         \o TimelineSlotsFrom(hour + 1, endHour, interval)

TimelineGenerateTimeSlots(startHour, endHour, interval) ==
    TimelineSlotsFrom(startHour, endHour, interval)

\* Mutant: the grid's inner loop without the break at the end hour.
RECURSIVE GridHourSlots_NoBreak(_, _, _, _)
GridHourSlots_NoBreak(hour, slotIndex, endHour, interval) ==
    IF slotIndex >= MINUTES_IN_HOUR \div interval THEN <<>>
    ELSE LET minute == slotIndex * interval
         IN  <<[hour |-> hour, minute |-> minute, isHourStart |-> (minute = 0)]>>
             \o GridHourSlots_NoBreak(hour, slotIndex + 1, endHour, interval)

\* CalendarGrid.generateTimeSlots, the inner loop: the slots pushed for one hour
\* from slotIndex on.
RECURSIVE GridHourSlots(_, _, _, _)
GridHourSlots(hour, slotIndex, endHour, interval) ==
    IF slotIndex >= MINUTES_IN_HOUR \div interval THEN <<>>
    ELSE LET minute == slotIndex * interval
         IN  IF hour = endHour /\ minute > 0 THEN <<>>
             ELSE <<[hour |-> hour, minute |-> minute, isHourStart |-> (minute = 0)]>>
                  \o GridHourSlots(hour, slotIndex + 1, endHour, interval)

\* CalendarGrid.generateTimeSlots, the outer loop: the slots pushed from hour on.
RECURSIVE GridSlotsFrom(_, _, _)
GridSlotsFrom(hour, endHour, interval) ==
    IF hour > endHour THEN <<>>
    ELSE GridHourSlots(hour, 0, endHour, interval)
         \o GridSlotsFrom(hour + 1, endHour, interval)

\* Mutant: the grid's outer loop runs one hour past endHour.
GridGenerateTimeSlots_PastEnd(startHour, endHour, interval) ==
    GridSlotsFrom(startHour, endHour + 1, interval)

GridGenerateTimeSlots(startHour, endHour, interval) ==
    GridSlotsFrom(startHour, endHour, interval)

LatticeProps(s, e, i) == [startHour |-> s, endHour |-> e, slotInterval |-> i]

\* The props Calendar passes to the two panes.
CalendarTimelineProps == LatticeProps(MIN_HOUR, MAX_HOUR, CALENDAR_INTERVAL)
CalendarGridProps == LatticeProps(MIN_HOUR, MAX_HOUR, CALENDAR_INTERVAL)

\* Arguments of the generators: any hours of the day in any order, any valid interval.
LatticeArgs ==
    {LatticeProps(s, e, i) : s \in MIN_HOUR .. MAX_HOUR, e \in MIN_HOUR .. MAX_HOUR,
                             i \in VALID_SLOT_INTERVALS}

LatticeIdle ==
    /\ timelineProps = CalendarTimelineProps
    /\ gridProps = CalendarGridProps
    /\ timelineSlots = <<>>
    /\ gridSlots = <<>>
    /\ panesRendered = {}

\* The two panes mounted by Calendar, or the two generators given one argument triple.
LatticeInit ==
    /\ \/ /\ timelineProps = CalendarTimelineProps
          /\ gridProps = CalendarGridProps
       \/ \E args \in LatticeArgs :
             /\ timelineProps = args
             /\ gridProps = args
    /\ timelineSlots = <<>>
    /\ gridSlots = <<>>
    /\ panesRendered = {}

\* CalendarTimeline renders: useMemo(() => generateTimeSlots(startHour, endHour, slotInterval)).
RenderTimeline ==
    /\ "timeline" \notin panesRendered
    /\ timelineSlots' = TimelineGenerateTimeSlots(timelineProps.startHour,
                                                  timelineProps.endHour,
                                                  timelineProps.slotInterval)
    /\ panesRendered' = panesRendered \cup {"timeline"}
    /\ UNCHANGED <<timelineProps, gridProps, gridSlots, notLattice>>

\* CalendarGrid renders: useMemo(() => generateTimeSlots(startHour, endHour, slotInterval)).
RenderGrid ==
    /\ "grid" \notin panesRendered
    /\ gridSlots' = GridGenerateTimeSlots(gridProps.startHour, gridProps.endHour,
                                          gridProps.slotInterval)
    /\ panesRendered' = panesRendered \cup {"grid"}
    /\ UNCHANGED <<timelineProps, gridProps, timelineSlots, notLattice>>

LatticeNext ==
    \/ RenderTimeline
    \/ RenderGrid

----------------------------------------------------------------------------
(* Overlap grouper and card placement                                       *)

\* Mutant: closed intervals, so that back-to-back appointments overlap.
AppointmentsOverlap_Closed(a1, a2) ==
    a1.startTime <= a2.endTime /\ a1.endTime >= a2.startTime

\* appointmentsOverlap(appointment1, appointment2).
AppointmentsOverlap(a1, a2) ==
    a1.startTime < a2.endTime /\ a1.endTime > a2.startTime

ByStartTime(a, b) == a.startTime - b.startTime

\* The comparator of calculateAppointmentOffset: start time, then id.localeCompare.
ByStartTimeThenId(a, b) ==
    IF a.startTime - b.startTime # 0 THEN a.startTime - b.startTime
    ELSE IF a.id < b.id THEN -1 ELSE IF a.id > b.id THEN 1 ELSE 0

\* Array.prototype.sort is stable: an element lands after the elements that
\* compare before it and after the equal ones that precede it in the array.
\* One step of the sort: x, which followed every element of `sorted` in the
\* array, goes after the elements that do not compare after it.
InsertByStartTime(sorted, x) ==
    LET k == Cardinality({i \in 1 .. Len(sorted) : ByStartTime(sorted[i], x) <= 0})
    IN  SubSeq(sorted, 1, k) \o <<x>> \o SubSeq(sorted, k + 1, Len(sorted))

\* [...appointments].sort((a, b) => a.startTime - b.startTime).
RECURSIVE SortedByStartTime(_)
SortedByStartTime(seq) ==
    IF Len(seq) <= 1 THEN seq
    ELSE InsertByStartTime(SortedByStartTime(SubSeq(seq, 1, Len(seq) - 1)),
                           seq[Len(seq)])

InsertByStartTimeThenId(sorted, x) ==
    LET k == Cardinality({i \in 1 .. Len(sorted) :
                              ByStartTimeThenId(sorted[i], x) <= 0})
    IN  SubSeq(sorted, 1, k) \o <<x>> \o SubSeq(sorted, k + 1, Len(sorted))

\* [...group].sort(by start time, then id.localeCompare).
RECURSIVE SortedByStartTimeThenId(_)
SortedByStartTimeThenId(seq) ==
    IF Len(seq) <= 1 THEN seq
    ELSE InsertByStartTimeThenId(
             SortedByStartTimeThenId(SubSeq(seq, 1, Len(seq) - 1)),
             seq[Len(seq)])

\* detectOverlappingAppointments, the inner forEach from otherIndex on: the
\* appointments at another index that overlap sortedAppointments[index].
RECURSIVE OverlappingFrom(_, _, _)
OverlappingFrom(sorted, index, otherIndex) ==
    IF otherIndex > Len(sorted) THEN <<>>
    ELSE (IF index # otherIndex
             /\ AppointmentsOverlap(sorted[index], sorted[otherIndex])
          THEN <<sorted[otherIndex]>> ELSE <<>>)
         \o OverlappingFrom(sorted, index, otherIndex + 1)

\* Mutant: the inner loop only looks at the appointments after index.
GroupOfIndex_Forward(sorted, index) ==
    <<sorted[index]>> \o OverlappingFrom(sorted, index, index + 1)

\* detectOverlappingAppointments, the body of the outer forEach: the group of
\* sortedAppointments[index] is itself, then every other that overlaps it.
GroupOfIndex(sorted, index) ==
    <<sorted[index]>> \o OverlappingFrom(sorted, index, 1)

\* detectOverlappingAppointments, the outer forEach over the sorted array.
GroupsOfSorted(sorted) ==
    [id \in {sorted[i].id : i \in 1 .. Len(sorted)} |->
        GroupOfIndex(sorted, IndexOfId(sorted, id))]

\* detectOverlappingAppointments(appointments): id -> [appointment, ...overlapping].
DetectOverlappingAppointments(apts) == GroupsOfSorted(SortedByStartTime(apts))

\* calculateAppointmentOffset, from sortedGroup on.
OffsetInSortedGroup(appointmentId, sortedGroup) ==
    LET found == IndexOfId(sortedGroup, appointmentId)
    IN  [offsetIndex |-> IF found >= 1 THEN found - 1 ELSE 0,
         totalOverlapping |-> Len(sortedGroup)]

\* calculateAppointmentOffset(appointmentId, overlappingGroups).
CalculateAppointmentOffset(appointmentId, groups) ==
    OffsetInSortedGroup(appointmentId,
        SortedByStartTimeThenId(IF appointmentId \in DOMAIN groups
                                THEN groups[appointmentId] ELSE <<>>))

\* AppointmentCard: left and width in percent of the column, as fractions num/den.
CardExtent(offsetIndex, totalOverlapping) ==
    IF totalOverlapping > 1
    THEN [leftNum |-> offsetIndex * 100, widthNum |-> 100, den |-> totalOverlapping]
    ELSE [leftNum |-> 0, widthNum |-> 100, den |-> 1]

\* Bounds of the day arrays given to the grouper.
MaxLaneAppointments == 3

\* Start and end times of the day's appointments: 09:00 to 10:30 in half hours.
LaneTimes == {9 * 60, 9 * 60 + 30, 10 * 60, 10 * 60 + 30}

LaneAppointment(id, s, e) == NewAppointment(id, FormData(s, e - s, FALSE))

LaneIntervals == {<<s, e>> \in LaneTimes \X LaneTimes : s < e}

\* Arrays of up to n appointments with distinct ids, in any order.
RECURSIVE DayArrays(_)
DayArrays(n) ==
    IF n = 0 THEN {<<>>}
    ELSE LET shorter == DayArrays(n - 1)
         IN  shorter \cup
             {Append(pair[1], LaneAppointment(pair[2], iv[1], iv[2])) :
                 pair \in {p \in {a \in shorter : Len(a) = n - 1}
                                  \X (1 .. MaxLaneAppointments) :
                              \A k \in 1 .. Len(p[1]) : p[1][k].id # p[2]},
                 iv \in LaneIntervals}

LaneIdle ==
    /\ dayAppointments = <<>>
    /\ overlappingGroups = <<>>
    /\ cards = <<>>
    /\ laneStage = "input"

LaneInit ==
    /\ dayAppointments \in DayArrays(MaxLaneAppointments)
    /\ overlappingGroups = <<>>
    /\ cards = <<>>
    /\ laneStage = "input"

\* CalendarGrid.appointmentDataByDate: the groups of the day's appointments.
DetectOverlaps ==
    /\ laneStage = "input"
    /\ overlappingGroups' = DetectOverlappingAppointments(dayAppointments)
    /\ laneStage' = "grouped"
    /\ UNCHANGED <<dayAppointments, cards, notLanes>>

\* CalendarColumn renders a card per appointment of the day.
PlaceCards ==
    /\ laneStage = "grouped"
    /\ cards' = [i \in 1 .. Len(dayAppointments) |->
                    LET lane == CalculateAppointmentOffset(dayAppointments[i].id,
                                                           overlappingGroups)
                    IN  [id |-> dayAppointments[i].id,
                         offsetIndex |-> lane.offsetIndex,
                         totalOverlapping |-> lane.totalOverlapping,
                         extent |-> CardExtent(lane.offsetIndex, lane.totalOverlapping)]]
    /\ laneStage' = "placed"
    /\ UNCHANGED <<dayAppointments, overlappingGroups, notLanes>>

LaneNext ==
    \/ DetectOverlaps
    \/ PlaceCards

----------------------------------------------------------------------------
(* The geometry mapper as a round trip                                      *)

\* Slot heights in pixels given to the mapper: those of useCalendarState and others.
GeoHeights == {1, 7, 20, 30, 40, 60}

\* calculateNewTime({yOffset, slotHeightPx, stepMinutes, startHour: 0, baseDate}).
NewTimeOfTop(yOffset, slotHeightPx, stepMinutes, baseDate) ==
    CalculateNewTime(yOffset, slotHeightPx, stepMinutes, MIN_HOUR, baseDate)

GeoNone == [t |-> 0, h |-> 0, i |-> 0]

GeoIdle ==
    /\ geoInput = GeoNone
    /\ geoTop = 0
    /\ geoTime = 0
    /\ geoStage = "idle"

\* Every minute of the displayed days, every height, every valid interval.
GeoInit ==
    /\ geoInput \in [t : {DayStart(d) + m : d \in Days, m \in 0 .. (MinutesInDay - 1)},
                     h : GeoHeights, i : VALID_SLOT_INTERVALS]
    /\ geoTop = 0
    /\ geoTime = 0
    /\ geoStage = "input"

\* calculateAppointmentTop(t, h, i).
ComputeTop ==
    /\ geoStage = "input"
    /\ geoTop' = CalculateAppointmentTop(geoInput.t, geoInput.h, geoInput.i)
    /\ geoStage' = "top"
    /\ UNCHANGED <<geoInput, geoTime, notGeo>>

\* calculateNewTime of that top on the date of t.
ComputeTime ==
    /\ geoStage = "top"
    /\ geoTime' = NewTimeOfTop(geoTop, geoInput.h, geoInput.i, geoInput.t)
    /\ geoStage' = "time"
    /\ UNCHANGED <<geoInput, geoTop, notGeo>>

GeoNext ==
    \/ ComputeTop
    \/ ComputeTime

----------------------------------------------------------------------------
(* Calendar: the scroll offsets of the ruler pane and the grid pane         *)

SLOT_HEIGHT_ESTIMATE == 60

Min(a, b) == IF a <= b THEN a ELSE b

\* Offsets the user scrolls a pane to, in pixels.
ScrollOffsets == {0, 100, 300}

\* Times of day (minutes) at which the calendar is mounted: midnight, morning, afternoon.
MountTimes == {0, 8 * 60, 14 * 60 + 30}

\* clientHeight of the panes, in pixels.
ClientHeights == {400, 600}

\* Both panes hold one row of the slot height per slot of the lattice; the
\* browser keeps scrollTop between 0 and scrollHeight - clientHeight.
MaxScrollTop(slotHeightPx, clientHeight) ==
    Max(0, Len(GridGenerateTimeSlots(MIN_HOUR, MAX_HOUR, CALENDAR_INTERVAL)) * slotHeightPx
           - clientHeight)

ClampScroll(y, slotHeightPx, clientHeight) ==
    Max(0, Min(y, MaxScrollTop(slotHeightPx, clientHeight)))

\* CalendarTimeline's mount effect: the offset it gives its own pane.
TimelineAutoScrollTop(now, clientHeight) ==
    LET minutesFromStart == (GetHours(now) - MIN_HOUR) * 60 + GetMinutes(now)
        scrollPosition == (minutesFromStart * SLOT_HEIGHT_ESTIMATE) \div CALENDAR_INTERVAL
        centeredPosition == scrollPosition - clientHeight \div 2
    IN  Max(0, centeredPosition)

\* Calendar's delayed auto-scroll: the offset it gives both panes.
CalendarAutoScrollTop(now, clientHeight, slotHeightPx) ==
    LET minutesFromStart == (GetHours(now) - MIN_HOUR) * 60 + GetMinutes(now)
        scrollPosition == (minutesFromStart * slotHeightPx) \div CALENDAR_INTERVAL
    IN  Max(0, scrollPosition - clientHeight \div 2)

\* Mutant: the handler copies the ruler's offset to the ruler (no synchronisation).
GridScrollHandlerTop_Inert(gridTop, timelineTop) == timelineTop

\* handleGridScroll: timelineElement.scrollTop = gridElement.scrollTop.
GridScrollHandlerTop(gridTop, timelineTop) == gridTop

\* No listener is attached to the ruler pane: its scroll leaves the grid alone.
GridTopAfterTimelineScroll(gridTop, timelineTop) == gridTop

NoScroll == [op |-> "none", grid |-> 0, timeline |-> 0]

ScrollStep(op) == [op |-> op, grid |-> gridScrollTop, timeline |-> timelineScrollTop]

ScrollIdle ==
    /\ gridScrollTop = 0
    /\ timelineScrollTop = 0
    /\ scrollPending = FALSE
    /\ mountStage = "settled"
    /\ scrollEnv = [now |-> 0, clientHeight |-> 0]
    /\ lastScroll = NoScroll

\* After the first commit: both panes at the top, the layout effect has attached
\* handleGridScroll to the grid pane, the passive effects have not run.
ScrollInit ==
    /\ gridScrollTop = 0
    /\ timelineScrollTop = 0
    /\ scrollPending = FALSE
    /\ mountStage = "mounted"
    /\ scrollEnv \in [now : MountTimes, clientHeight : ClientHeights]
    /\ lastScroll = NoScroll

\* CalendarTimeline's mount effect scrolls the ruler pane to the current time.
TimelineAutoScroll ==
    /\ mountStage = "mounted"
    /\ timelineScrollTop' =
          ClampScroll(TimelineAutoScrollTop(scrollEnv.now, scrollEnv.clientHeight),
                      SlotHeightPx(slotHeight), scrollEnv.clientHeight)
    /\ mountStage' = "timelineScrolled"
    /\ lastScroll' = ScrollStep("timelineAutoScroll")
    /\ UNCHANGED <<gridScrollTop, scrollPending, scrollEnv, notScroll>>

\* Calendar's timer fires: both panes are scrolled unless no minute of the day
\* has passed; a change of the grid's offset queues its scroll event.
CalendarAutoScroll ==
    /\ mountStage = "timelineScrolled"
    /\ LET minutesFromStart ==
               (GetHours(scrollEnv.now) - MIN_HOUR) * 60 + GetMinutes(scrollEnv.now)
           top == ClampScroll(CalendarAutoScrollTop(scrollEnv.now, scrollEnv.clientHeight,
                                                    SlotHeightPx(slotHeight)),
                              SlotHeightPx(slotHeight), scrollEnv.clientHeight)
       IN  IF minutesFromStart > 0
           THEN /\ gridScrollTop' = top
                /\ timelineScrollTop' = top
                /\ scrollPending' = (scrollPending \/ top # gridScrollTop)
           ELSE UNCHANGED <<gridScrollTop, timelineScrollTop, scrollPending>>
    /\ mountStage' = "settled"
    /\ lastScroll' = ScrollStep("calendarAutoScroll")
    /\ UNCHANGED <<scrollEnv, notScroll>>

\* The user scrolls the grid pane: its offset changes and a scroll event is queued.
ScrollGrid ==
    /\ \E y \in ScrollOffsets :
          /\ y # gridScrollTop
          /\ gridScrollTop' = y
    /\ scrollPending' = TRUE
    /\ lastScroll' = ScrollStep("scrollGrid")
    /\ UNCHANGED <<timelineScrollTop, mountStage, scrollEnv, notScroll>>

\* The user scrolls the ruler pane (wheel or touch over the time column).
ScrollTimeline ==
    /\ \E y \in ScrollOffsets :
          /\ y # timelineScrollTop
          /\ timelineScrollTop' = y
          /\ gridScrollTop' = GridTopAfterTimelineScroll(gridScrollTop, y)
    /\ lastScroll' = ScrollStep("scrollTimeline")
    /\ UNCHANGED <<scrollPending, mountStage, scrollEnv, notScroll>>

\* The grid pane's scroll event is dispatched: handleGridScroll runs.
HandleGridScroll ==
    /\ scrollPending
    /\ timelineScrollTop' = GridScrollHandlerTop(gridScrollTop, timelineScrollTop)
    /\ scrollPending' = FALSE
    /\ lastScroll' = ScrollStep("handleGridScroll")
    /\ UNCHANGED <<gridScrollTop, mountStage, scrollEnv, notScroll>>

ScrollNext ==
    \/ TimelineAutoScroll
    \/ CalendarAutoScroll
    \/ ScrollGrid
    \/ ScrollTimeline
    \/ HandleGridScroll

----------------------------------------------------------------------------
(* The store's update queue: setAppointments between renders                *)

\* Bounds of the drag-end events delivered in one behaviour.
MaxDelivered == 3

\* Start times and deltas of the queued drags.
QueueStarts == {9 * 60, 23 * 60 + 30}
QueueDeltaYs == {-100, 40}
QueueOvers == {NoOver, OverColumn(1)}

\* Mutant: the handler passes setAppointments the array computed from the
\* appointments of the last render instead of an updater function.
QueuedUpdate_FromRendered(active, over, deltaY, slotHeightPx) ==
    [fn |-> FALSE, active |-> active, over |-> over, deltaY |-> deltaY,
     slotHeightPx |-> slotHeightPx,
     value |-> DragUpdater(renderedAppointments, active, over, deltaY, slotHeightPx)]

\* The argument handleDragEnd passes to setAppointments: the updater (prev) => ...,
\* closed over the event and the slotHeightPx of the render.
QueuedUpdate(active, over, deltaY, slotHeightPx) ==
    [fn |-> TRUE, active |-> active, over |-> over, deltaY |-> deltaY,
     slotHeightPx |-> slotHeightPx, value |-> <<>>]

\* React applies a queued update to the state left by the previous one: an
\* updater function is called with it, a plain value replaces it.
ApplyUpdate(prev, update) ==
    IF update.fn
    THEN DragUpdater(prev, update.active, update.over, update.deltaY, update.slotHeightPx)
    ELSE update.value

\* The state after the queue is processed, first queued first.
RECURSIVE ProcessQueue(_, _)
ProcessQueue(prev, queue) ==
    IF queue = <<>> THEN prev
    ELSE ProcessQueue(ApplyUpdate(prev, Head(queue)), Tail(queue))

QueueIdle ==
    /\ renderedAppointments = <<>>
    /\ updateQueue = <<>>
    /\ foldedAppointments = <<>>
    /\ delivered = 0

\* A store of two appointments made by the form, rendered, nothing queued.
QueueInit ==
    /\ renderedAppointments \in
          {<<NewAppointment(1, FormData(s1, d1, FALSE)),
             NewAppointment(2, FormData(s2, d2, FALSE))>> :
              s1 \in QueueStarts, s2 \in QueueStarts,
              d1 \in PresetDurations, d2 \in PresetDurations}
    /\ updateQueue = <<>>
    /\ foldedAppointments = renderedAppointments
    /\ delivered = 0

\* A drag-end event is delivered: handleDragEnd runs with the closure of the
\* last render and, past its guards, queues its update.
DeliverDragEnd ==
    /\ delivered < MaxDelivered
    /\ \E id \in {renderedAppointments[i].id : i \in 1 .. Len(renderedAppointments)},
          type \in {"appointment", "resize"},
          over \in QueueOvers, deltaY \in QueueDeltaYs :
          LET active == ActiveOf(id, type)
              px == SlotHeightPx(slotHeight)
          IN  /\ type = "resize" => over = NoOver
              /\ updateQueue' =
                    IF DragCommits(active, over)
                    THEN Append(updateQueue, QueuedUpdate(active, over, deltaY, px))
                    ELSE updateQueue
              /\ foldedAppointments' =
                    DragEndStore(foldedAppointments, active, over, deltaY, px)
    /\ delivered' = delivered + 1
    /\ UNCHANGED <<renderedAppointments, notQueue>>

\* React re-renders: the queued updates are processed in order and the
\* component sees the resulting array.
RenderAppointments ==
    /\ updateQueue # <<>>
    /\ renderedAppointments' = ProcessQueue(renderedAppointments, updateQueue)
    /\ updateQueue' = <<>>
    /\ UNCHANGED <<foldedAppointments, delivered, notQueue>>

QueueNext ==
    \/ DeliverDragEnd
    \/ RenderAppointments

----------------------------------------------------------------------------
(* The per-day filter: filterAppointmentsByDate                             *)

\* Date.toDateString: one string per local calendar day, here the day's 00:00.
ToDateString(t) == StartOfDay(t)

\* The callback of appointments.filter: the three tests, in order.
FilterKeeps(appointment, date) ==
    LET targetDay == ToDateString(date)
        dayStart  == StartOfDay(date)
    IN  \/ ToDateString(appointment.startTime) = targetDay
        \/ appointment.startTime < dayStart /\ appointment.endTime > dayStart
        \/ ToDateString(appointment.endTime) = targetDay

FilterAppointmentsByDate(apts, date) ==
    SelectSeq(apts, LAMBDA appointment : FilterKeeps(appointment, date))

MaxFilterAppointments == 2

\* Start and end times of the appointments prop: 00:00, 12:00 and 23:30 of
\* day 0, 00:00 and 12:00 of day 1, 00:00 and 12:00 of day 2.
FilterTimes ==
    {0, 12 * 60, 23 * 60 + 30, MinutesInDay, MinutesInDay + 12 * 60,
     2 * MinutesInDay, 2 * MinutesInDay + 12 * 60}

FilterIntervals == {<<s, e>> \in FilterTimes \X FilterTimes : s < e}

\* A displayed date is any instant of its day: here 00:00 and 10:00.
FilterDates == {d * MinutesInDay + h * MINUTES_IN_HOUR : d \in Days, h \in {0, 10}}

\* Arrays of up to n appointments with distinct ids, in any order.
RECURSIVE FilterArrays(_)
FilterArrays(n) ==
    IF n = 0 THEN {<<>>}
    ELSE LET shorter == FilterArrays(n - 1)
         IN  shorter \cup
             {Append(pair[1], NewAppointment(pair[2], FormData(iv[1], iv[2] - iv[1], FALSE))) :
                 pair \in {p \in {a \in shorter : Len(a) = n - 1}
                                  \X (1 .. MaxFilterAppointments) :
                              \A i \in 1 .. Len(p[1]) : p[1][i].id # p[2]},
                 iv \in FilterIntervals}

FilterIdle ==
    /\ filterInput = [appointments |-> <<>>, date |-> 0]
    /\ filterResult = <<>>
    /\ filterStage = "input"

FilterInit ==
    /\ filterInput \in [appointments : FilterArrays(MaxFilterAppointments),
                        date : FilterDates]
    /\ filterResult = <<>>
    /\ filterStage = "input"

\* CalendarGrid.appointmentDataByDate: the appointments of one displayed date.
FilterDay ==
    /\ filterStage = "input"
    /\ filterResult' = FilterAppointmentsByDate(filterInput.appointments, filterInput.date)
    /\ filterStage' = "filtered"
    /\ UNCHANGED <<filterInput, notFilter>>

FilterNext == FilterDay

----------------------------------------------------------------------------
(* Properties of the appointment store and the drag/resize interpreter      *)

\* The appointment `id` before and after the last store handler.
BeforeOf(id) == last.prev[IndexOfId(last.prev, id)]
AfterOf(id) == appointments[IndexOfId(appointments, id)]

LastIsDrag(op) ==
    /\ last.op = op
    /\ IndexOfId(last.prev, last.id) # 0

\* The code's snap of a resize delta, written out: round((dy / (h / 30)) / 15) * 15.
QuarterHourSnap(deltaY, heightPx) == ((2 * deltaY * 30 + heightPx * 15) \div (2 * heightPx * 15)) * 15

\* The claimed snap of a resize delta for slot interval i:
\* round((dy / (h / i)) / i) * i.
IntervalSnap(deltaY, heightPx, i) == ((2 * deltaY * i + heightPx * i) \div (2 * heightPx * i)) * i

\* C1: in every reachable store state every appointment satisfies
\* duration = endTime - startTime (in minutes).
C1_DurationIsEndMinusStart ==
    \A i \in 1 .. Len(appointments) :
        appointments[i].duration = appointments[i].endTime - appointments[i].startTime

\* C1 witness: a drag (move or resize) has replaced an appointment of the store.
C1_Witness ==
    /\ last.op \in {"move", "resize"}
    /\ ~last.kept
    /\ appointments # last.prev
    /\ Len(appointments) = MaxAppointments

\* C5: an accepted move of a with delta dy onto the column of date D sets
\* startTime = calculateNewTime(calculateAppointmentTop(a.startTime) + dy, baseDate = D),
\* that is D + 30 * round(max(0, top + dy) / slotHeightPx), and endTime =
\* startTime + a.duration with duration unchanged; moving 09:00 of day 0 to the
\* column of day 1 at the offset of 15:00 gives day 1 15:00.
C5_MoveTakesDateFromColumn ==
    /\ (LastIsDrag("move") /\ last.over.kind = "column") =>
          LET a == BeforeOf(last.id)
              b == AfterOf(last.id)
              h == last.height
              tod == a.startTime % (24 * 60)
              slots == (2 * Max(0, tod * h + last.deltaY * 30) + 30 * h) \div (2 * 30 * h)
          IN  /\ b.startTime =
                    CalculateNewTime(
                        CalculateAppointmentTop(a.startTime, h, 30) + last.deltaY * SubPx,
                        h, 30, 0, last.over.date)
              /\ b.startTime = last.over.date + 30 * slots
              /\ b.endTime = b.startTime + a.duration
              /\ b.duration = a.duration
    /\ \A h \in {SlotHeightPx(x) : x \in SlotHeights} :
          MovedStartTime(DayStart(0) + 9 * 60, 12 * h, h, DayStart(1)) = DayStart(1) + 15 * 60

\* C5 witness: a move onto the other day's column has changed the start time.
C5_Witness ==
    /\ LastIsDrag("move")
    /\ last.over.kind = "column"
    /\ StartOfDay(BeforeOf(last.id).startTime) # last.over.date
    /\ AfterOf(last.id).startTime % (24 * 60) # BeforeOf(last.id).startTime % (24 * 60)
    /\ StartOfDay(AfterOf(last.id).startTime) = last.over.date

C7_MoveWithoutTargetKeepsStore ==
    (last.op = "move" /\ last.over.kind # "column") =>
        /\ appointments = last.prev
        /\ last.kept

\* C7 witness: a move with a nonzero delta ended with no drop target.
C7_Witness ==
    /\ LastIsDrag("move")
    /\ last.over.kind = "none"
    /\ last.deltaY # 0
    /\ appointments = last.prev

\* C8: a resize whose snapped delta would take the duration below 15 minutes
\* results in a duration of exactly 15 and endTime = startTime + 15.
C8_ResizeBelowMinimumClamps ==
    LastIsDrag("resize") =>
        LET a == BeforeOf(last.id)
            b == AfterOf(last.id)
        IN  (a.duration + QuarterHourSnap(last.deltaY, last.height) < 15) =>
                /\ b.duration = 15
                /\ b.endTime = b.startTime + 15
                /\ b.startTime = a.startTime

\* C8 witness: a resize of a longer appointment was clamped, the snapped delta
\* making the duration negative.
C8_Witness ==
    /\ LastIsDrag("resize")
    /\ BeforeOf(last.id).duration > 15
    /\ BeforeOf(last.id).duration + QuarterHourSnap(last.deltaY, last.height) < 0
    /\ AfterOf(last.id).duration = 15

\* C11: the boundary row at endHour:00 is never an appointment start: an
\* activation of a slot row of a displayed day never opens the create modal
\* with a start at or after endHour:00 of that day (Calendar displays up to
\* MAX_HOUR), and the appointment created from it never starts there.
C11_BoundarySlotNotBookable ==
    /\ modalState.mode = "create" =>
          modalState.date < modalState.column + MAX_HOUR * MINUTES_IN_HOUR
    /\ last.op = "add" =>
          AfterOf(last.id).startTime < last.column + MAX_HOUR * MINUTES_IN_HOUR

\* C17: a form edit, a drag-move or a drag-resize leaves the id and the
\* isNewPatient of every appointment of the store as they were.
C17_IdAndNewPatientImmutable ==
    last.op \in {"edit", "move", "resize"} =>
        /\ Len(appointments) = Len(last.prev)
        /\ \A k \in 1 .. Len(last.prev) :
              /\ appointments[k].id = last.prev[k].id
              /\ appointments[k].isNewPatient = last.prev[k].isNewPatient

\* C21: a move whose snapped result leaves the appointment's start time, end
\* time and duration as they were writes no new store value: the updater
\* returns the previous appointments array itself.
C21_UnchangedMoveKeepsArray ==
    (/\ LastIsDrag("move")
     /\ last.over.kind = "column"
     /\ AfterOf(last.id).startTime = BeforeOf(last.id).startTime
     /\ AfterOf(last.id).endTime = BeforeOf(last.id).endTime
     /\ AfterOf(last.id).duration = BeforeOf(last.id).duration) => last.kept

\* C22: a resize whose duration after snapping and clamping equals the original
\* duration is a no-op: the updater returns the previous appointments array
\* itself and no record is replaced.
C22_UnchangedResizeKeepsArray ==
    LastIsDrag("resize") =>
        LET a == BeforeOf(last.id)
        IN  (Max(15, a.duration + QuarterHourSnap(last.deltaY, last.height)) = a.duration) =>
                /\ last.kept
                /\ appointments = last.prev

\* C22 witness: a resize with a nonzero delta that snaps to no change, and one
\* that the floor brings back to the original 15 minutes, kept the array.
C22_Witness ==
    /\ LastIsDrag("resize")
    /\ last.deltaY # 0
    /\ last.kept
    /\ \/ QuarterHourSnap(last.deltaY, last.height) = 0
       \/ /\ QuarterHourSnap(last.deltaY, last.height) < 0
          /\ BeforeOf(last.id).duration = 15

\* C23: a resize of a changes only a.duration and a.endTime: a.startTime, every
\* other field of a, every other appointment and the number of appointments are
\* as before, and the resize is applied whether or not the drag ended over a
\* drop target.
C23_ResizeTouchesDurationAndEndOnly ==
    LastIsDrag("resize") =>
        LET a == BeforeOf(last.id)
            b == AfterOf(last.id)
        IN  /\ Len(appointments) = Len(last.prev)
            /\ \A k \in 1 .. Len(last.prev) :
                  last.prev[k].id # last.id => appointments[k] = last.prev[k]
            /\ IndexOfId(appointments, last.id) = IndexOfId(last.prev, last.id)
            /\ b = [a EXCEPT !.duration = b.duration, !.endTime = b.endTime]
            /\ b.startTime = a.startTime
            /\ b.duration = Max(15, a.duration + QuarterHourSnap(last.deltaY, last.height))
            /\ b.endTime = a.startTime + b.duration

\* C23 witness: a resize that ended over no drop target changed the duration of
\* one of two appointments.
C23_Witness ==
    /\ LastIsDrag("resize")
    /\ last.over.kind = "none"
    /\ Len(appointments) = 2
    /\ AfterOf(last.id).duration # BeforeOf(last.id).duration

\* C24: drag and resize mutations take effect in the order their drag-end events
\* are delivered, each computed against the store left by the previous one: the
\* store the next render sees, and the rendered store when nothing is queued,
\* is the fold of handleDragEnd over the delivered events from the initial
\* store, also when several events are delivered before a re-render.
C24_UpdatesApplyInDeliveryOrder ==
    /\ ProcessQueue(renderedAppointments, updateQueue) = foldedAppointments
    /\ updateQueue = <<>> => renderedAppointments = foldedAppointments

\* C24 witness: two updates of one appointment were queued before a re-render,
\* the second one computed on the result of the first: applied to the rendered
\* array it would give another store.
C24_Witness ==
    /\ Len(updateQueue) = 2
    /\ updateQueue[1].active.id = updateQueue[2].active.id
    /\ ApplyUpdate(renderedAppointments, updateQueue[1]) # renderedAppointments
    /\ ApplyUpdate(renderedAppointments, updateQueue[2]) # foldedAppointments
    /\ ProcessQueue(renderedAppointments, updateQueue) = foldedAppointments

\* C26: after an accepted move onto the column of date D, whatever the vertical
\* delta, the new startTime lies on date D: not before D 00:00 and strictly
\* before D 24:00.
C26_MoveStaysOnColumnDay ==
    (LastIsDrag("move") /\ last.over.kind = "column") =>
        /\ AfterOf(last.id).startTime >= last.over.date
        /\ AfterOf(last.id).startTime < last.over.date + HOURS_IN_DAY * MINUTES_IN_HOUR

\* C29: in every store state reached from the empty store by form-create and
\* form-edit with schema-valid data, drag-move, drag-resize and delete, every
\* appointment has a duration of at least 15 minutes and ends strictly after
\* it starts.
C29_DurationAtLeastQuarterHour ==
    \A i \in 1 .. Len(appointments) :
        /\ appointments[i].duration >= 15
        /\ appointments[i].endTime > appointments[i].startTime

\* C29 witness: after a drag the store holds an appointment at the minimum
\* duration next to one that a resize has made longer than every preset in use.
C29_Witness ==
    /\ last.op \in {"move", "resize"}
    /\ ~last.kept
    /\ \E i, j \in 1 .. Len(appointments) :
          /\ appointments[i].duration = 15
          /\ \A d \in PresetDurations : appointments[j].duration > d

----------------------------------------------------------------------------
(* Properties of the working-hours state                                    *)

\* The invariant of WorkingHours, written out over JavaScript values.
HoursInvariant(hours) ==
    /\ hours.startHour.t = "number"
    /\ hours.endHour.t = "number"
    /\ 0 <= hours.startHour.v
    /\ hours.startHour.v < hours.endHour.v
    /\ hours.endHour.v <= 24
    /\ hours.endHour.v - hours.startHour.v >= 1

\* C3: in every reachable state, after the startup load from any storage content
\* and any sequence of setWorkingHours, setStartHour and setEndHour calls, the
\* working hours satisfy 0 <= startHour < endHour <= 24 and endHour - startHour >= 1.
C3_WorkingHoursValid == HoursInvariant(workingHours)

\* C3 witness: setStartHour or setEndHour has been accepted and changed the hours.
C3_Witness ==
    /\ lastSet.op \in {"setStart", "setEnd"}
    /\ workingHours = lastSet.arg
    /\ workingHours # lastSet.prev

\* C4: setWorkingHours called with a pair that violates the invariant leaves the
\* working hours exactly as they were.
C4_InvalidSetKeepsHours ==
    (lastSet.op = "set" /\ ~HoursInvariant(lastSet.arg)) => workingHours = lastSet.prev

\* C4 witness: from {8, 20}, setWorkingHours({startHour: 20, endHour: 8}) was
\* called and the hours are still {8, 20}.
C4_Witness ==
    /\ lastSet.op = "set"
    /\ lastSet.prev = Hours(Num(8), Num(20))
    /\ lastSet.arg = Hours(Num(20), Num(8))
    /\ workingHours = Hours(Num(8), Num(20))

\* The mount has loaded the hours and nothing has run since: the storage still
\* holds what it held at startup.
AtStartup == lastSet.op = "none" /\ effectPending

\* C18: at startup the working hours are the persisted pair when the entry is
\* present, parses to an object and its pair satisfies the invariant; they are
\* the defaults {8, 18} when the entry is missing, unparsable, no object, or its
\* pair violates the invariant; and the load lets no exception escape.
C18_LoadValidatesOrDefaults ==
    AtStartup =>
        /\ ~LoadWorkingHoursRaises(storage)
        /\ IF /\ storage.kind = "object"
              /\ HoursInvariant(Hours(storage.startHour, storage.endHour))
           THEN workingHours = Hours(storage.startHour, storage.endHour)
           ELSE workingHours = Hours(Num(8), Num(18))

\* C18 witness: the entry holds the object {startHour: 20, endHour: 8} and the
\* hours at startup are the defaults.
C18_Witness ==
    /\ AtStartup
    /\ storage = StorageObject(Num(20), Num(8))
    /\ workingHours = DefaultHours

\* C19: whenever no persist effect is pending, in particular once the effect of
\* a successful setWorkingHours has run, the record under the storage key is the
\* in-memory working hours; and a setter call that is rejected changes neither
\* the record nor whether an effect is pending.
C19_PersistedEqualsMemory ==
    /\ [](~effectPending => storage = StorageObject(workingHours.startHour,
                                                    workingHours.endHour))
    /\ [][(lastSet' # lastSet /\ ~HoursInvariant(lastSet'.arg)) =>
              (storage' = storage /\ effectPending' = effectPending)]_vars

\* C19 witness: setWorkingHours was accepted, changed the hours, its effect has
\* run and the storage holds the new pair.
C19_Witness ==
    /\ lastSet.op = "set"
    /\ workingHours = lastSet.arg
    /\ workingHours # lastSet.prev
    /\ ~effectPending
    /\ storage = StorageObject(lastSet.arg.startHour, lastSet.arg.endHour)

\* C27: setStartHour(a) and then setEndHour(b) with no re-render in between,
\* each update valid against the hours it is applied to, give the working hours
\* {startHour: a, endHour: b}: neither update is lost.
C27_StartThenEndBothKept ==
    (/\ lastSet.op = "setEnd"
     /\ lastSet.startBefore # UndefinedValue
     /\ ValidateWorkingHours(lastSet.startBefore, lastSet.arg.endHour)) =>
        workingHours = Hours(lastSet.startBefore, lastSet.arg.endHour)

----------------------------------------------------------------------------
(* Properties of the slot lattice                                           *)

\* C9: for startHour <= endHour in 0..24 and interval in {15, 30, 60} the ruler's
\* generateTimeSlots returns exactly (endHour - startHour) * (60 / interval) + 1
\* slots, strictly increasing in (hour, minute): row k is hour startHour + k div
\* (60 / interval), minute (k mod (60 / interval)) * interval, for every row
\* before the last, and the last row is {endHour, 0}; (8, 18, 30) gives 21 slots
\* ending {17, 30}, {18, 0}.
C9_SlotCountAndBoundary ==
    /\ ("timeline" \in panesRendered /\ timelineProps.startHour <= timelineProps.endHour) =>
          LET s == timelineProps.startHour
              e == timelineProps.endHour
              perHour == 60 \div timelineProps.slotInterval
              n == Len(timelineSlots)
          IN  /\ n = (e - s) * perHour + 1
              /\ \A k \in 1 .. n :
                    /\ timelineSlots[k].hour = s + (k - 1) \div perHour
                    /\ timelineSlots[k].minute = ((k - 1) % perHour) * timelineProps.slotInterval
              /\ timelineSlots[n].hour = e /\ timelineSlots[n].minute = 0
              /\ \A k \in 1 .. (n - 1) :
                    timelineSlots[k].hour * 60 + timelineSlots[k].minute
                        < timelineSlots[k + 1].hour * 60 + timelineSlots[k + 1].minute
    /\ LET example == TimelineGenerateTimeSlots(8, 18, 30)
       IN  /\ Len(example) = 21
           /\ example[1].hour = 8 /\ example[1].minute = 0
           /\ example[20].hour = 17 /\ example[20].minute = 30
           /\ example[21].hour = 18 /\ example[21].minute = 0

\* C9 witness: the ruler has generated the 41 rows of 08:00..18:00 at the
\* quarter-hour interval.
C9_Witness ==
    /\ "timeline" \in panesRendered
    /\ timelineProps = LatticeProps(8, 18, 15)
    /\ Len(timelineSlots) = 41

\* The (hour, minute, isHourStart) of a ruler row.
SlotCore(slot) ==
    [hour |-> slot.hour, minute |-> slot.minute, isHourStart |-> slot.isHourStart]

\* C10: once both panes have rendered, the ruler's and the grid's slots are the
\* same sequence of (hour, minute, isHourStart): for every argument triple given
\* to both generators, and for the props Calendar passes to the two panes.
C10_RulerAndGridAgree ==
    panesRendered = {"timeline", "grid"} =>
        /\ Len(timelineSlots) = Len(gridSlots)
        /\ \A k \in 1 .. Len(gridSlots) : SlotCore(timelineSlots[k]) = gridSlots[k]

\* C10 witness: both panes rendered with Calendar's props, 49 rows each.
C10_Witness ==
    /\ panesRendered = {"timeline", "grid"}
    /\ timelineProps = LatticeProps(0, 24, 30)
    /\ gridProps = LatticeProps(0, 24, 30)
    /\ Len(gridSlots) = 49

\* C12 as claimed: every slot the grid generates from the props Calendar passes
\* (startHour 0, endHour 24, interval 30) has hour in 0..23, minute a multiple
\* of the interval below 60, and isHourStart true exactly when minute = 0.
C12_SlotHourBelow24 ==
    ("grid" \in panesRendered /\ gridProps = CalendarGridProps) =>
        \A k \in 1 .. Len(gridSlots) :
            /\ gridSlots[k].hour \in 0 .. 23
            /\ gridSlots[k].minute % gridProps.slotInterval = 0
            /\ gridSlots[k].minute \in 0 .. (MINUTES_IN_HOUR - 1)
            /\ gridSlots[k].isHourStart = (gridSlots[k].minute = 0)

\* C12 amended: every slot the grid generates, from the props Calendar passes
\* and from any other argument triple, has hour in 0..24, where hour 24 occurs
\* only as the final boundary row {24, 0}; its minute is a multiple of the
\* interval below 60, and isHourStart is true exactly when minute = 0.
C12_SlotFieldsInRange ==
    "grid" \in panesRendered =>
        \A k \in 1 .. Len(gridSlots) :
            /\ gridSlots[k].hour \in MIN_HOUR .. MAX_HOUR
            /\ gridSlots[k].hour = MAX_HOUR =>
                  (k = Len(gridSlots) /\ gridSlots[k].minute = 0)
            /\ gridSlots[k].minute % gridProps.slotInterval = 0
            /\ gridSlots[k].minute \in 0 .. (MINUTES_IN_HOUR - 1)
            /\ gridSlots[k].isHourStart = (gridSlots[k].minute = 0)

\* C12 witness: the grid rendered from Calendar's props ends with the row of hour 24.
C12_Witness ==
    /\ "grid" \in panesRendered
    /\ gridProps = CalendarGridProps
    /\ gridSlots[Len(gridSlots)].hour = MAX_HOUR
    /\ gridSlots[Len(gridSlots) - 1].hour = MAX_HOUR - 1

\* C28: card geometry and the slot lattice share one origin for every start
\* hour S given to the grid: an appointment that starts at the time of the
\* grid's row k (S:00 + k * interval, counted from 0, on the day of the column)
\* is drawn with top = k * slotHeightPx.
C28_CardTopOnItsRow ==
    "grid" \in panesRendered =>
        \A k \in 1 .. Len(gridSlots) :
            gridSlots[k].hour < HOURS_IN_DAY =>
                \A d \in Days, h \in SlotHeights :
                    CalculateAppointmentTop(
                        DayStart(d) + gridSlots[k].hour * MINUTES_IN_HOUR
                                    + gridSlots[k].minute,
                        SlotHeightPx(h), gridProps.slotInterval)
                      = (k - 1) * SlotHeightPx(h) * SubPx

----------------------------------------------------------------------------
(* Properties of the geometry mapper                                        *)

\* C13: for every time t, slot height h > 0 and interval i in {15, 30, 60},
\* calculateNewTime of calculateAppointmentTop(t, h, i), with startHour 0 and the
\* date of t as base date, is a slot edge of that date within one interval of t;
\* rounding picks the nearer edge, so it is at most half an interval away.
C13_RoundTripWithinInterval ==
    geoStage = "time" =>
        LET distance == IF geoTime >= geoInput.t THEN geoTime - geoInput.t
                        ELSE geoInput.t - geoTime
        IN  /\ distance < geoInput.i
            /\ 2 * distance <= geoInput.i
            /\ (geoTime - StartOfDay(geoInput.t)) % geoInput.i = 0

\* C13 witness: the round trip of 09:50 at 30 minutes lands on the later edge 10:00.
C13_Witness ==
    /\ geoStage = "time"
    /\ geoInput.i = 30
    /\ geoInput.t = DayStart(1) + 9 * MINUTES_IN_HOUR + 50
    /\ geoTime = DayStart(1) + 10 * MINUTES_IN_HOUR

----------------------------------------------------------------------------
(* Properties of the overlap layout                                         *)

CardOf(id) == cards[CHOOSE i \in 1 .. Len(cards) : cards[i].id = id]

\* [left, left + width) of two cards are disjoint (fractions compared by cross-multiplying).
ExtentsDisjoint(x, y) ==
    \/ (x.leftNum + x.widthNum) * y.den <= y.leftNum * x.den
    \/ (y.leftNum + y.widthNum) * x.den <= x.leftNum * y.den

\* C2: in a day column every two distinct appointments whose time intervals
\* intersect are drawn with disjoint horizontal extents
\* [offsetIndex / totalOverlapping, (offsetIndex + 1) / totalOverlapping), and every
\* card's extent lies within 0..100% of the column.
C2_OverlappingCardsDisjoint ==
    laneStage = "placed" =>
        /\ \A i \in 1 .. Len(cards) :
              /\ cards[i].extent.leftNum >= 0
              /\ cards[i].extent.leftNum + cards[i].extent.widthNum
                    <= 100 * cards[i].extent.den
        /\ \A i, j \in 1 .. Len(dayAppointments) :
              (i # j /\ dayAppointments[i].startTime < dayAppointments[j].endTime
                     /\ dayAppointments[i].endTime > dayAppointments[j].startTime) =>
                  ExtentsDisjoint(CardOf(dayAppointments[i].id).extent,
                                  CardOf(dayAppointments[j].id).extent)

\* The appointments of the day whose interval intersects that of a (half-open).
Intersecting(a) ==
    {dayAppointments[j] : j \in {k \in 1 .. Len(dayAppointments) :
        /\ dayAppointments[k].id # a.id
        /\ dayAppointments[k].startTime < a.endTime
        /\ dayAppointments[k].endTime > a.startTime}}

\* b precedes a in the order by (startTime, id).
Precedes(b, a) ==
    \/ b.startTime < a.startTime
    \/ (b.startTime = a.startTime /\ b.id < a.id)

\* C14: for each appointment a of the day the lane computation returns
\* totalOverlapping = 1 + the number of other appointments whose interval
\* intersects a's (half-open, back-to-back does not count) and offsetIndex = the
\* rank of a among itself and those, ordered by (startTime, id); A [09:00,09:30)
\* and B [09:15,09:45) yield A -> {0, 2} and B -> {1, 2}.
C14_LaneIsRankInOverlapSet ==
    /\ laneStage = "placed" =>
          \A i \in 1 .. Len(dayAppointments) :
              LET a == dayAppointments[i]
                  card == CardOf(a.id)
              IN  /\ card.totalOverlapping = 1 + Cardinality(Intersecting(a))
                  /\ card.offsetIndex =
                        Cardinality({b \in Intersecting(a) : Precedes(b, a)})
    /\ LET A == LaneAppointment(1, 9 * 60, 9 * 60 + 30)
           B == LaneAppointment(2, 9 * 60 + 15, 9 * 60 + 45)
           groups == DetectOverlappingAppointments(<<B, A>>)
       IN  /\ CalculateAppointmentOffset(1, groups)
                 = [offsetIndex |-> 0, totalOverlapping |-> 2]
           /\ CalculateAppointmentOffset(2, groups)
                 = [offsetIndex |-> 1, totalOverlapping |-> 2]

\* C14 witness: three cards placed, two of them back to back, and a third that
\* intersects both and ranks between them.
C14_Witness ==
    /\ laneStage = "placed"
    /\ Len(dayAppointments) = 3
    /\ \E i, j, k \in 1 .. 3 :
          /\ dayAppointments[i].endTime = dayAppointments[j].startTime
          /\ CardOf(dayAppointments[i].id).totalOverlapping = 2
          /\ CardOf(dayAppointments[k].id).totalOverlapping = 3
          /\ CardOf(dayAppointments[k].id).offsetIndex = 1

\* C15: for any two distinct appointments of one day, their offsetIndex values
\* differ if and only if their time intervals intersect (half-open:
\* a.start < b.end and a.end > b.start).
C15_IndexDiffersIffIntersect ==
    laneStage = "placed" =>
        \A i, j \in 1 .. Len(dayAppointments) :
            i # j =>
                LET a == dayAppointments[i]
                    b == dayAppointments[j]
                IN  (CardOf(a.id).offsetIndex # CardOf(b.id).offsetIndex)
                        <=> (a.startTime < b.endTime /\ a.endTime > b.startTime)

\* The orderings of the day's appointment array.
Reorderings(arr) ==
    {[k \in 1 .. Len(arr) |-> arr[f[k]]] : f \in Permutations(1 .. Len(arr))}

\* Every appointment's lane computed from `groups` is the lane of its card.
LanesAgreeWithCards(groups) ==
    \A i \in 1 .. Len(cards) :
        CalculateAppointmentOffset(cards[i].id, groups)
          = [offsetIndex |-> cards[i].offsetIndex,
             totalOverlapping |-> cards[i].totalOverlapping]

\* C16: the lane of an appointment depends only on the set of the day's
\* appointments: computed from any reordering of the array, every appointment
\* gets the {offsetIndex, totalOverlapping} of its card, also when several
\* appointments start at the same time.
C16_LanesIndependentOfOrder ==
    laneStage = "placed" =>
        \A other \in Reorderings(dayAppointments) :
            LanesAgreeWithCards(DetectOverlappingAppointments(other))

\* C16 witness: three cards placed from an array in which the appointments that
\* start together are not in id order.
C16_Witness ==
    /\ laneStage = "placed"
    /\ Len(dayAppointments) = 3
    /\ dayAppointments[1].startTime = dayAppointments[2].startTime
    /\ dayAppointments[1].id > dayAppointments[2].id
    /\ dayAppointments[3].startTime < dayAppointments[1].startTime
    /\ CardOf(dayAppointments[1].id).offsetIndex = 2

----------------------------------------------------------------------------
(* Properties of the scroll synchronisation                                 *)

\* C20: a change of the grid pane's scroll offset queues its scroll event, the
\* event is eventually handled, and the handler leaves the ruler pane at the
\* grid's offset; the synchronisation is one-directional: a scroll of the ruler
\* pane leaves the grid's offset as it was.
C20_GridDrivesRuler ==
    /\ [](lastScroll.op = "scrollGrid" => scrollPending)
    /\ [](lastScroll.op = "handleGridScroll" => timelineScrollTop = gridScrollTop)
    /\ [](lastScroll.op = "scrollTimeline" => gridScrollTop = lastScroll.grid)
    /\ (scrollPending ~> lastScroll.op = "handleGridScroll")

\* C20 witness: the handler ran while the panes were apart and brought the
\* ruler to the grid's offset.
C20_Witness ==
    /\ lastScroll.op = "handleGridScroll"
    /\ lastScroll.timeline # lastScroll.grid
    /\ timelineScrollTop = gridScrollTop
    /\ gridScrollTop = lastScroll.grid
    /\ mountStage = "settled"

\* C25: after mount has settled (both auto-scrolls have run) and once no scroll
\* event is pending, the ruler's offset is the grid's, whichever of the two
\* panes was scrolled.
C25_PanesAlignedAfterSettle ==
    (mountStage = "settled" /\ ~scrollPending) => timelineScrollTop = gridScrollTop

----------------------------------------------------------------------------
(* Properties of the per-day filter                                         *)

\* The appointment's half-open interval [startTime, endTime) intersects the
\* date's day [00:00, 24:00).
OccupiesDay(appointment, date) ==
    /\ appointment.startTime < StartOfDay(date) + MinutesInDay
    /\ appointment.endTime > StartOfDay(date)

InFilterResult(appointment) ==
    \E i \in 1 .. Len(filterResult) : filterResult[i] = appointment

\* C30: filterAppointmentsByDate(appointments, D) returns exactly the
\* appointments whose half-open interval [startTime, endTime) intersects day
\* D's [00:00, 24:00).
C30_FilterKeepsExactlyOccupants ==
    filterStage = "filtered" =>
        \A i \in 1 .. Len(filterInput.appointments) :
            InFilterResult(filterInput.appointments[i])
                <=> OccupiesDay(filterInput.appointments[i], filterInput.date)

\* Every appointment that occupies time on the day is returned.
C30_OccupantsAreKept ==
    filterStage = "filtered" =>
        \A i \in 1 .. Len(filterInput.appointments) :
            OccupiesDay(filterInput.appointments[i], filterInput.date)
                => InFilterResult(filterInput.appointments[i])

\* An appointment the filter returns although it occupies no time of the day
\* ends at 00:00 of that day.
C30_ExtraEndsAtMidnight ==
    filterStage = "filtered" =>
        \A i \in 1 .. Len(filterInput.appointments) :
            (/\ InFilterResult(filterInput.appointments[i])
             /\ ~OccupiesDay(filterInput.appointments[i], filterInput.date))
                => filterInput.appointments[i].endTime = StartOfDay(filterInput.date)

----------------------------------------------------------------------------
(* Specifications                                                           *)

\* The calendar session: the appointment store and the drag/resize interpreter.
Init == StoreInit /\ HoursIdle /\ LatticeIdle /\ LaneIdle /\ GeoIdle /\ ScrollIdle /\ QueueIdle
    /\ FilterIdle
Next == StoreNext
Spec == Init /\ [][Next]_vars

\* The working-hours provider, mounted over any storage content.
InitHours == StoreInit /\ HoursInit /\ LatticeIdle /\ LaneIdle /\ GeoIdle /\ ScrollIdle /\ QueueIdle
    /\ FilterIdle
NextHours == HoursNext
SpecHours == InitHours /\ [][NextHours]_vars

\* The two slot generators applied to their props.
InitLattice == StoreInit /\ HoursIdle /\ LatticeInit /\ LaneIdle /\ GeoIdle /\ ScrollIdle /\ QueueIdle
    /\ FilterIdle
NextLattice == LatticeNext
SpecLattice == InitLattice /\ [][NextLattice]_vars

\* The overlap grouper and the card placement applied to a day's appointments.
InitLanes == StoreInit /\ HoursIdle /\ LatticeIdle /\ LaneInit /\ GeoIdle /\ ScrollIdle /\ QueueIdle
    /\ FilterIdle
NextLanes == LaneNext
SpecLanes == InitLanes /\ [][NextLanes]_vars

\* The geometry mapper applied to a time: its top, then the time of that top.
InitGeo == StoreInit /\ HoursIdle /\ LatticeIdle /\ LaneIdle /\ GeoInit /\ ScrollIdle /\ QueueIdle
    /\ FilterIdle
NextGeo == GeoNext
SpecGeo == InitGeo /\ [][NextGeo]_vars

\* The two scroll panes from mount on; the browser dispatches a queued scroll
\* event of the grid.
InitScroll ==
    StoreInit /\ HoursIdle /\ LatticeIdle /\ LaneIdle /\ GeoIdle /\ ScrollInit /\ QueueIdle
    /\ FilterIdle
NextScroll == ScrollNext
SpecScroll == InitScroll /\ [][NextScroll]_vars /\ WF_vars(HandleGridScroll)

\* Drag-end events delivered to the store between renders.
InitQueue ==
    StoreInit /\ HoursIdle /\ LatticeIdle /\ LaneIdle /\ GeoIdle /\ ScrollIdle /\ QueueInit
    /\ FilterIdle
NextQueue == QueueNext
SpecQueue == InitQueue /\ [][NextQueue]_vars

\* The grid's per-day filter over any appointments prop and displayed date.
InitFilter ==
    StoreInit /\ HoursIdle /\ LatticeIdle /\ LaneIdle /\ GeoIdle /\ ScrollIdle /\ QueueIdle
    /\ FilterInit
NextFilter == FilterNext
SpecFilter == InitFilter /\ [][NextFilter]_vars

====
